---- MODULE Spec2Model ----
(***************************************************************************)
(* Paperplay: the document / collection state engine of the two variants   *)
(* of the application kept in the repository.                              *)
(*   variant "A" : src/src/App.tsx      (database "DocPlaylist")           *)
(*   variant "B" : src/unnamed/part_000 (database "PaperplayDB")           *)
(* The state is the IndexedDB tables, the React state of the App           *)
(* component, the MiniSearch index objects and the position of every       *)
(* async handler that is suspended at an await.  One action is one run of  *)
(* handler code between two awaits; a database request takes effect in the *)
(* step in which its await resumes.                                        *)
(*                                                                         *)
(* Conventions                                                             *)
(*  - A handler reads the React state of the render in which it was        *)
(*    called; values it keeps across an await (docs and searchIndex in     *)
(*    B's handleUpload, targetCollection in A's handleDragEnd) are copied  *)
(*    into the handler's record when it starts.                            *)
(*  - Writes to one store are served in request order (IndexedDB orders    *)
(*    read/write transactions on one store by creation), each of them may  *)
(*    reject.  Variant B opens the database before a collection write; the *)
(*    opens are served in call order too.                                  *)
(*  - getAll returns a table in key order; a fresh key sorts anywhere      *)
(*    among the keys of its table, a row keeps its place when overwritten. *)
(*  - Document.addedAt and Document.file are left out: no handler reads    *)
(*    them.  The dialog flags showNewColl / newCollName are inputs of      *)
(*    createCollection.                                                    *)
(*  - A page reload drops the handlers and the writes still in flight.     *)
(*  - The page registers the document cards with the DndContext and no     *)
(*    collection row, so in Spec a drag ends over nothing or over a card.  *)
(*    SpecAssign is one page load of the same machine with the collection  *)
(*    rows as drop targets: handleDragEnd is called with the id of a       *)
(*    collection as over.id, the input its code is written for.            *)
(*  - last is an observation of the step taken last; no handler reads it.  *)
(***************************************************************************)
EXTENDS Integers, Sequences, FiniteSets, TLC

\* ------------------------------------------------------------------ bounds
MaxDocs == 2        \* files handed to upload handlers over a whole behaviour
MaxColls == 1       \* collections created by createCollection
MaxFiles == 2       \* files of one upload
MaxUploads == 2     \* upload handlers alive at once
MaxPending == 2     \* collection writes in flight at once
MaxRestarts == 1    \* page reloads

\* ------------------------------------------------------------ input values
Variants == {"A", "B"}

\* a file of the file picker: its name, its MIME type (major, minor) and
\* whether the browser can decode it as an image
ImgOk == [name |-> <<"w", ".", "j">>, type |-> <<"image", "png">>, decodes |-> TRUE]
ImgBad == [name |-> <<"o", ".", "j">>, type |-> <<"image", "png">>, decodes |-> FALSE]
Pdf == [name |-> <<"o", ".", "p">>, type |-> <<"application", "pdf">>, decodes |-> FALSE]
Other == [name |-> <<"w">>, type |-> <<"text", "plain">>, decodes |-> FALSE]
FileKinds == {ImgOk, ImgBad, Pdf, Other}

\* the files the upload handlers of the behaviours are given
Files == {ImgOk, ImgBad}

FileLists == UNION {[1..n -> Files] : n \in 0..MaxFiles}

\* what the user can have typed in the new-collection dialog
CollNames == {<<>>, <<" ">>, <<" ", " ">>, <<" ", "T">>}

\* what the user can have typed in the search box
Queries == {<<>>, <<" ">>, <<"w">>, <<"o">>}

\* crypto.randomUUID(): a key that no record has.  Which key a draw gives, and so
\* where it sorts among the others, is the draw's choice.  DocId(n) is the
\* document key that sorts n-th; CollId(n) is the n-th collection key that
\* sorts after "all" (a UUID that starts with b..f), LowCollId(n) the n-th
\* that sorts before "all" (a UUID that starts with 0..9 or a)
DocId(n) == "d" \o ToString(n)
CollId(n) == "c" \o ToString(n)
LowCollId(n) == "a" \o ToString(n)
DocKeys == {DocId(n) : n \in 1..MaxDocs}
CollKeys == {LowCollId(n) : n \in 1..MaxColls} \cup {CollId(n) : n \in 1..MaxColls}

\* the keys in the order IndexedDB keeps them (the order of the strings)
KeyOrder ==
    [n \in 1..MaxColls |-> LowCollId(n)] \o <<"all">> \o [n \in 1..MaxColls |-> CollId(n)]
        \o [n \in 1..MaxDocs |-> DocId(n)]
KeyRank(id) == CHOOSE i \in DOMAIN KeyOrder : KeyOrder[i] = id

NoOver == "null"                 \* event.over === null
Never == "never"                 \* a promise that is never settled

\* --------------------------------------------------------- pure functions
Ids(s) == [i \in DOMAIN s |-> s[i].id]
Range(s) == {s[i] : i \in DOMAIN s}
includes(s, x) == \E i \in DOMAIN s : s[i] = x
HasId(s, id) == \E i \in DOMAIN s : s[i].id = id
find(s, id) == s[CHOOSE i \in DOMAIN s : s[i].id = id /\ \A j \in 1..(i - 1) : s[j].id # id]

\* a trim that trims nothing
trim_Identity(s) == s

\* String.prototype.trim over the characters of the model
RECURSIVE trimStart(_)
trimStart(s) == IF s # <<>> /\ Head(s) = " " THEN trimStart(Tail(s)) ELSE s
RECURSIVE trimEnd(_)
trimEnd(s) == IF s # <<>> /\ s[Len(s)] = " " THEN trimEnd(SubSeq(s, 1, Len(s) - 1)) ELSE s
trim(s) == trimEnd(trimStart(s))

\* name.replace(/\.[^/.]+$/, "")
stripExtension(s) ==
    LET dots == {i \in DOMAIN s : s[i] = "."}
    IN  IF dots = {} THEN s
        ELSE LET i == CHOOSE k \in dots : \A m \in dots : m <= k
             IN  IF i < Len(s) /\ \A m \in (i + 1)..Len(s) : s[m] # "/"
                 THEN SubSeq(s, 1, i - 1)
                 ELSE s

\* MiniSearch's default tokenizer: split at spaces and punctuation
Separators == {" ", ".", "/", "-"}
RECURSIVE tokenize(_, _)
tokenize(s, cur) ==
    IF s = <<>> THEN (IF cur = <<>> THEN {} ELSE {cur})
    ELSE IF Head(s) \in Separators
         THEN (IF cur = <<>> THEN {} ELSE {cur}) \cup tokenize(Tail(s), <<>>)
         ELSE tokenize(Tail(s), Append(cur, Head(s)))

\* MiniSearch.search: the entries whose name shares a term with the query
search(index, q) ==
    LET terms == tokenize(q, <<>>)
    IN  SelectSeq(index, LAMBDA e : tokenize(e.name, <<>>) \cap terms # {})

\* db.put on a table kept in key order: a record with the key is replaced, a
\* new record goes where its key sorts
put(table, entity) ==
    IF HasId(table, entity.id)
    THEN [i \in DOMAIN table |-> IF table[i].id = entity.id THEN entity ELSE table[i]]
    ELSE SelectSeq(table, LAMBDA r : KeyRank(r.id) < KeyRank(entity.id))
            \o <<entity>>
            \o SelectSeq(table, LAMBDA r : KeyRank(r.id) > KeyRank(entity.id))

AllOf(ds) == [id |-> "all", name |-> <<"A", "l", "l">>, documentIds |-> Ids(ds)]

createFallbackThumbnail(kind) == <<"fallback", kind>>

\* variant A, App.tsx createThumbnail
createThumbnailA(file) ==
    IF file.type = <<"application", "pdf">> THEN <<"/pdf-icon.png">>
    ELSE IF file.decodes THEN <<"canvas">>
    ELSE <<Never>>

\* variant B, part_000 createThumbnail
createThumbnailB(file) ==
    IF file.type[1] = "image"
    THEN (IF file.decodes THEN <<"canvas">> ELSE createFallbackThumbnail("image"))
    ELSE IF file.type = <<"application", "pdf">> THEN createFallbackThumbnail("pdf")
    ELSE createFallbackThumbnail("file")

createThumbnail(v, file) == IF v = "A" THEN createThumbnailA(file) ELSE createThumbnailB(file)

\* the Document built for a file once its thumbnail is there
newDocument(v, id, file) ==
    [id |-> id,
     name |-> IF v = "A" THEN file.name ELSE stripExtension(file.name),
     thumbnail |-> createThumbnail(v, file)]

\* ------------------------------------------------------------------ state
VARIABLES
    variant,        \* which of the two App components runs
    dbDocuments,    \* IndexedDB table "documents", in key order
    dbCollections,  \* IndexedDB table "collections", in key order
    docs,           \* React state: documents (A) / docs (B)
    collections,    \* React state: collections
    selectedColl,   \* React state: <<>> for null, else <<the selected Collection object>>
    indexes,        \* the MiniSearch objects of this page load
    searchIndex,    \* which MiniSearch object the binding / state refers to
    init,           \* the start-up effect: its position and what it has read
    uploads,        \* the upload handlers, by slot
    collPuts,       \* writes to "collections" in flight, in request order
    nextDoc,        \* document keys drawn so far, plus one
    nextColl,       \* collection keys drawn so far, plus one
    restarts,       \* page reloads so far
    last            \* the handler step taken last

vars == <<variant, dbDocuments, dbCollections, docs, collections, selectedColl,
          indexes, searchIndex, init, uploads, collPuts, nextDoc, nextColl,
          restarts, last>>

Slots == 1..MaxUploads
\* an upload handler: where it stands ("idle": not running, "open": at await
\* openDB, "thumb": at await createThumbnail, "put": at await db.put,
\* "stalled"), the files it has not looked at yet, the docs and searchIndex of
\* its render (B), its newDocs (B), the document whose put it awaits and the
\* number of that put among the document puts requested
IdleUpload ==
    [pc |-> "idle", files |-> <<>>, docs |-> <<>>, index |-> 0, newDocs |-> <<>>,
     doc |-> <<>>, seq |-> 0]
FreshInit(v) == [pc |-> IF v = "A" THEN "colls" ELSE "docs", savedDocs |-> <<>>, savedColls |-> <<>>]

Init ==
    /\ variant \in Variants
    /\ dbDocuments = <<>>
    /\ dbCollections = <<>>
    /\ docs = <<>>
    /\ collections = <<>>
    /\ selectedColl = <<>>
    /\ indexes = <<<<>>>>
    /\ searchIndex = 1
    /\ init = FreshInit(variant)
    /\ uploads = [u \in Slots |-> IdleUpload]
    /\ collPuts = <<>>
    /\ nextDoc = 1
    /\ nextColl = 1
    /\ restarts = 0
    /\ last = [op |-> "load"]

\* ---------------------------------------------------------------- queries
\* variant A, App.tsx displayedDocs
displayedDocsA(sel, ds) ==
    IF sel # <<>>
    THEN SelectSeq(ds, LAMBDA d : sel[1].id = "all" \/ includes(sel[1].documentIds, d.id))
    ELSE ds

\* displayedDocs without the special case for "all"
displayedDocsB_StoredAll(sel, ds) ==
    IF sel # <<>>
    THEN SelectSeq(ds, LAMBDA d : includes(sel[1].documentIds, d.id))
    ELSE ds

\* variant B, part_000 displayedDocs
displayedDocsB(sel, ds) ==
    IF sel # <<>>
    THEN (IF sel[1].id = "all"
          THEN ds
          ELSE SelectSeq(ds, LAMBDA d : includes(sel[1].documentIds, d.id)))
    ELSE ds

displayedDocs(sel) == IF variant = "A" THEN displayedDocsA(sel, docs) ELSE displayedDocsB(sel, docs)

\* the resolution without .filter(Boolean): an unresolved id leaves an undefined entry
RECURSIVE resolve_KeepUndefined(_, _)
resolve_KeepUndefined(results, ds) ==
    IF results = <<>> THEN <<>>
    ELSE (IF HasId(ds, Head(results).id) THEN <<find(ds, Head(results).id)>>
          ELSE <<[id |-> "undefined", name |-> <<>>, thumbnail |-> <<>>]>>)
         \o resolve_KeepUndefined(Tail(results), ds)

\* search results resolved against the document state; unresolved ones dropped
RECURSIVE resolve(_, _)
resolve(results, ds) ==
    IF results = <<>> THEN <<>>
    ELSE (IF HasId(ds, Head(results).id) THEN <<find(ds, Head(results).id)>> ELSE <<>>)
         \o resolve(Tail(results), ds)

\* a search scoped to the active collection
filteredDocsOf_ScopedSearch(sel, q) ==
    IF q # <<>>
    THEN resolve(search(indexes[searchIndex], q), displayedDocs(sel))
    ELSE displayedDocs(sel)

filteredDocsOf(sel, q) ==
    IF q # <<>>
    THEN resolve(search(indexes[searchIndex], q), docs)
    ELSE displayedDocs(sel)

filteredDocs(q) == filteredDocsOf(selectedColl, q)

\* ------------------------------------------------------ start-up effect
\* the state the effect sets once both tables are read
InitReflect(savedDocs, savedColls) ==
    /\ docs' = savedDocs
    /\ collections' = IF Len(savedColls) > 0 THEN savedColls ELSE <<AllOf(savedDocs)>>
    /\ selectedColl' = IF Len(savedColls) > 0 THEN <<savedColls[1]>> ELSE <<AllOf(savedDocs)>>

\* await db.getAll("collections")
InitGetCollections ==
    /\ init.pc = "colls"
    /\ IF variant = "A"
       THEN /\ init' = [init EXCEPT !.pc = "docs", !.savedColls = dbCollections]
            /\ UNCHANGED <<docs, collections, selectedColl, indexes, searchIndex>>
       ELSE /\ InitReflect(init.savedDocs, dbCollections)
            /\ indexes' = Append(indexes, [i \in DOMAIN init.savedDocs |->
                              [id |-> init.savedDocs[i].id, name |-> init.savedDocs[i].name]])
            /\ searchIndex' = Len(indexes) + 1
            /\ init' = [pc |-> "done", savedDocs |-> <<>>, savedColls |-> <<>>]
    /\ last' = [op |-> "initGetCollections"]
    /\ UNCHANGED <<variant, dbDocuments, dbCollections, uploads, collPuts, nextDoc, nextColl, restarts>>

\* await db.getAll("documents")
InitGetDocuments ==
    /\ init.pc = "docs"
    /\ IF variant = "A"
       THEN /\ InitReflect(dbDocuments, init.savedColls)
            /\ init' = [pc |-> "index", savedDocs |-> <<>>, savedColls |-> <<>>]
       ELSE /\ init' = [init EXCEPT !.pc = "colls", !.savedDocs = dbDocuments]
            /\ UNCHANGED <<docs, collections, selectedColl>>
    /\ last' = [op |-> "initGetDocuments"]
    /\ UNCHANGED <<variant, dbDocuments, dbCollections, indexes, searchIndex, uploads,
                   collPuts, nextDoc, nextColl, restarts>>

\* variant A, loadSearchIndex: the module's index is rebuilt from the table
loadSearchIndex ==
    /\ init.pc = "index"
    /\ indexes' = [indexes EXCEPT ![searchIndex] =
                      [i \in DOMAIN dbDocuments |->
                          [id |-> dbDocuments[i].id, name |-> dbDocuments[i].name]]]
    /\ init' = [init EXCEPT !.pc = "done"]
    /\ last' = [op |-> "loadSearchIndex"]
    /\ UNCHANGED <<variant, dbDocuments, dbCollections, docs, collections, selectedColl,
                   searchIndex, uploads, collPuts, nextDoc, nextColl, restarts>>

\* a read of the start-up effect rejects: A leaves the rejection unhandled,
\* B logs it; no state is set after it
InitFault ==
    /\ init.pc \in {"colls", "docs", "index"}
    /\ init' = [pc |-> "failed", savedDocs |-> <<>>, savedColls |-> <<>>]
    /\ last' = [op |-> "initFault"]
    /\ UNCHANGED <<variant, dbDocuments, dbCollections, docs, collections, selectedColl,
                   indexes, searchIndex, uploads, collPuts, nextDoc, nextColl, restarts>>

\* ---------------------------------------------------------------- upload
RECURSIVE FilesLeft(_)
FilesLeft(u) == IF u = 0 THEN 0 ELSE Len(uploads[u].files) + FilesLeft(u - 1)

\* the upload handler is called with the picked files and runs to its first
\* await (A: createThumbnail of the first file, B: openDB)
handleUploadStart(files) ==
    /\ (nextDoc - 1) + FilesLeft(MaxUploads) + Len(files) <= MaxDocs
    /\ \E u \in Slots :
        /\ uploads[u].pc = "idle"
        /\ \A w \in 1..(u - 1) : uploads[w].pc # "idle"
        /\ uploads' = IF Len(files) = 0 THEN uploads
                      ELSE [uploads EXCEPT ![u] =
                              [pc |-> IF variant = "B" THEN "open" ELSE "thumb",
                               files |-> files,
                               docs |-> IF variant = "B" THEN docs ELSE <<>>,
                               index |-> IF variant = "B" THEN searchIndex ELSE 0,
                               newDocs |-> <<>>, doc |-> <<>>, seq |-> 0]]
    /\ last' = [op |-> "uploadStart"]
    /\ UNCHANGED <<variant, dbDocuments, dbCollections, docs, collections, selectedColl,
                   indexes, searchIndex, init, collPuts, nextDoc, nextColl, restarts>>

IndexEntry(doc) == [id |-> doc.id, name |-> doc.name]

\* variant B: what handleUpload sets after its loop
setAllDocumentIds(colls, updatedDocs) ==
    [i \in DOMAIN colls |->
        IF colls[i].id = "all" THEN [colls[i] EXCEPT !.documentIds = Ids(updatedDocs)]
        ELSE colls[i]]

\* the keys crypto.randomUUID() can give: those no record has, in a table or
\* on its way to one
FreshDocKeys ==
    DocKeys \ (Range(Ids(dbDocuments)) \cup UNION {Range(Ids(uploads[u].doc)) : u \in Slots})
FreshCollKeys ==
    CollKeys \ (Range(Ids(dbCollections)) \cup {collPuts[i].coll.id : i \in DOMAIN collPuts})

\* variant B: await openDB resumes; newDocs is empty and createThumbnail of the
\* first file is called
UploadOpened(u) ==
    /\ uploads[u].pc = "open"
    /\ uploads' = [uploads EXCEPT ![u].pc = "thumb"]
    /\ last' = [op |-> "uploadOpened"]
    /\ UNCHANGED <<variant, dbDocuments, dbCollections, docs, collections, selectedColl,
                   indexes, searchIndex, init, collPuts, nextDoc, nextColl, restarts>>

\* await createThumbnail resumes: the key is drawn, the document is built and
\* db.put("documents", doc) is called
UploadPut(u) ==
    /\ uploads[u].pc = "thumb"
    /\ \E id \in FreshDocKeys :
       LET doc == newDocument(variant, id, Head(uploads[u].files))
       IN  /\ doc.thumbnail # <<Never>>
           /\ uploads' = [uploads EXCEPT ![u] =
                            [@ EXCEPT !.pc = "put", !.files = Tail(@), !.doc = <<doc>>,
                                      !.seq = nextDoc]]
    /\ nextDoc' = nextDoc + 1
    /\ last' = [op |-> "uploadPut"]
    /\ UNCHANGED <<variant, dbDocuments, dbCollections, docs, collections, selectedColl,
                   indexes, searchIndex, init, collPuts, nextColl, restarts>>

\* the put of upload u is the oldest document put that is not settled
OldestDocPut(u) ==
    \A w \in Slots : uploads[w].pc = "put" => uploads[u].seq <= uploads[w].seq

\* await db.put("documents", doc) resumes, the document is in the table: state
\* and index are updated, and createThumbnail of the next file is called or,
\* after the last file, the handler runs to its end
UploadFile(u) ==
    /\ uploads[u].pc = "put"
    /\ OldestDocPut(u)
    /\ LET up == uploads[u]
           doc == up.doc[1]
           rest == up.files
           next == [up EXCEPT !.pc = "thumb", !.doc = <<>>, !.seq = 0]
       IN  /\ dbDocuments' = put(dbDocuments, doc)
           /\ IF variant = "A"
              THEN /\ docs' = Append(docs, doc)
                   /\ indexes' = [indexes EXCEPT ![searchIndex] = Append(@, IndexEntry(doc))]
                   /\ uploads' = [uploads EXCEPT ![u] =
                                    IF rest = <<>> THEN IdleUpload ELSE next]
                   /\ UNCHANGED collections
              ELSE /\ indexes' = [indexes EXCEPT ![up.index] = Append(@, IndexEntry(doc))]
                   /\ IF rest = <<>>
                      THEN LET updatedDocs == up.docs \o Append(up.newDocs, doc)
                           IN  /\ docs' = updatedDocs
                               /\ collections' = setAllDocumentIds(collections, updatedDocs)
                               /\ uploads' = [uploads EXCEPT ![u] = IdleUpload]
                      ELSE /\ uploads' = [uploads EXCEPT ![u] =
                                    [next EXCEPT !.newDocs = Append(@, doc)]]
                           /\ UNCHANGED <<docs, collections>>
           /\ last' = [op |-> "uploadFile", done |-> (rest = <<>>)]
    /\ UNCHANGED <<variant, dbCollections, selectedColl, searchIndex, init, collPuts,
                   nextDoc, nextColl, restarts>>

\* db.put("documents", doc) rejects: the loop is left (A: unhandled rejection,
\* B: the catch block), the files after this one are not looked at
UploadFault(u) ==
    /\ uploads[u].pc = "put"
    /\ OldestDocPut(u)
    /\ uploads' = [uploads EXCEPT ![u] = IdleUpload]
    /\ last' = [op |-> "uploadFault"]
    /\ UNCHANGED <<variant, dbDocuments, dbCollections, docs, collections, selectedColl,
                   indexes, searchIndex, init, collPuts, nextDoc, nextColl, restarts>>

\* the thumbnail promise is never settled: the handler stays at its await
UploadStall(u) ==
    /\ uploads[u].pc = "thumb"
    /\ createThumbnail(variant, Head(uploads[u].files)) = <<Never>>
    /\ uploads' = [uploads EXCEPT ![u].pc = "stalled"]
    /\ last' = [op |-> "uploadStall"]
    /\ UNCHANGED <<variant, dbDocuments, dbCollections, docs, collections, selectedColl,
                   indexes, searchIndex, init, collPuts, nextDoc, nextColl, restarts>>

\* ------------------------------------------------- collections and drags
\* createCollection that shows the collection before the write is awaited
createCollection_ReflectFirst(name) ==
    /\ IF trim(name) = <<>>
       THEN /\ UNCHANGED <<collPuts, nextColl, collections>>
            /\ last' = [op |-> "createCollection", issued |-> FALSE]
       ELSE /\ nextColl <= MaxColls
            /\ Len(collPuts) < MaxPending
            /\ \E id \in FreshCollKeys :
                  /\ collections' = Append(collections,
                         [id |-> id, name |-> name, documentIds |-> <<>>])
                  /\ collPuts' = Append(collPuts,
                         [kind |-> "detached", issued |-> (variant = "A"),
                          coll |-> [id |-> id, name |-> name, documentIds |-> <<>>]])
            /\ nextColl' = nextColl + 1
            /\ last' = [op |-> "createCollection", issued |-> TRUE]
    /\ UNCHANGED <<variant, dbDocuments, dbCollections, docs, selectedColl,
                   indexes, searchIndex, init, uploads, nextDoc, restarts>>

\* createCollection up to its first await: the name is tested, the key drawn
\* and the collection built; A has called db.put, B has called openDB and
\* calls db.put when that await resumes
createCollection(name) ==
    /\ IF trim(name) = <<>>
       THEN /\ UNCHANGED <<collPuts, nextColl>>
            /\ last' = [op |-> "createCollection", issued |-> FALSE]
       ELSE /\ nextColl <= MaxColls
            /\ Len(collPuts) < MaxPending
            /\ \E id \in FreshCollKeys :
                  collPuts' = Append(collPuts,
                     [kind |-> "create", issued |-> (variant = "A"),
                      coll |-> [id |-> id, name |-> name, documentIds |-> <<>>]])
            /\ nextColl' = nextColl + 1
            /\ last' = [op |-> "createCollection", issued |-> TRUE]
    /\ UNCHANGED <<variant, dbDocuments, dbCollections, docs, collections, selectedColl,
                   indexes, searchIndex, init, uploads, nextDoc, restarts>>

\* handleDragEnd (A) that takes a drop target it does not know for a new, empty
\* collection instead of returning
handleDragEndA_UpsertTarget(active, over) ==
    IF over = NoOver \/ active = over THEN <<>>
    ELSE LET targetCollection ==
                 IF HasId(collections, over) THEN find(collections, over)
                 ELSE [id |-> over, name |-> <<>>, documentIds |-> <<>>]
         IN  IF includes(targetCollection.documentIds, active) THEN <<>>
             ELSE <<[kind |-> "assign", issued |-> TRUE,
                     coll |-> [targetCollection EXCEPT !.documentIds = Append(@, active)]]>>

\* variant A, App.tsx handleDragEnd up to its await: the collection write it issues
handleDragEndA(active, over) ==
    IF over = NoOver \/ active = over THEN <<>>
    ELSE IF ~HasId(collections, over) THEN <<>>
    ELSE LET targetCollection == find(collections, over)
         IN  IF includes(targetCollection.documentIds, active) THEN <<>>
             ELSE <<[kind |-> "assign", issued |-> TRUE,
                     coll |-> [targetCollection EXCEPT !.documentIds = Append(@, active)]]>>

\* handleDragEnd (B) without the test for an id that is already a member
handleDragEndB_NoMemberTest(active, over) ==
    IF over = NoOver \/ active = over THEN collections
    ELSE IF over = "all" THEN collections
    ELSE [i \in DOMAIN collections |->
            IF collections[i].id = over
            THEN [collections[i] EXCEPT !.documentIds = Append(@, active)]
            ELSE collections[i]]

\* variant B, part_000 handleDragEnd: the collections its updater returns
handleDragEndB(active, over) ==
    IF over = NoOver \/ active = over THEN collections
    ELSE IF over = "all" THEN collections
    ELSE [i \in DOMAIN collections |->
            IF collections[i].id = over /\ ~includes(collections[i].documentIds, active)
            THEN [collections[i] EXCEPT !.documentIds = Append(@, active)]
            ELSE collections[i]]

\* variant B: the writes the updater fires, one for each collection it changed,
\* each behind an openDB
DetachedPuts(old, new) ==
    LET changed == SelectSeq([i \in DOMAIN new |-> <<old[i], new[i]>>], LAMBDA p : p[1] # p[2])
    IN  [i \in DOMAIN changed |->
            [kind |-> "detached", issued |-> FALSE, coll |-> changed[i][2]]]

handleDragEnd(active, over) ==
    /\ Len(collPuts) < MaxPending
    /\ IF variant = "A"
       THEN /\ collPuts' = collPuts \o handleDragEndA(active, over)
            /\ UNCHANGED collections
       ELSE /\ collections' = handleDragEndB(active, over)
            /\ collPuts' = collPuts \o DetachedPuts(collections, handleDragEndB(active, over))
    /\ last' = [op |-> "dragEnd", active |-> active, over |-> over]
    /\ UNCHANGED <<variant, dbDocuments, dbCollections, docs, selectedColl, indexes,
                   searchIndex, init, uploads, nextDoc, nextColl, restarts>>

\* what the handler awaiting a collection write sets when the write has succeeded
Reflect(w, colls) ==
    IF w.kind = "create" THEN Append(colls, w.coll)
    ELSE IF w.kind = "assign"
         THEN [i \in DOMAIN colls |-> IF colls[i].id = w.coll.id THEN w.coll ELSE colls[i]]
         ELSE colls

\* variant B: the oldest openDB awaited for a collection write resumes and
\* db.put("collections", ...) is called
CollPutIssue ==
    /\ \E i \in DOMAIN collPuts :
          /\ ~collPuts[i].issued
          /\ \A j \in 1..(i - 1) : collPuts[j].issued
          /\ collPuts' = [collPuts EXCEPT ![i].issued = TRUE]
    /\ last' = [op |-> "collPutIssue"]
    /\ UNCHANGED <<variant, dbDocuments, dbCollections, docs, collections, selectedColl,
                   indexes, searchIndex, init, uploads, nextDoc, nextColl, restarts>>

\* the oldest collection write succeeds
CollPutOk ==
    /\ collPuts # <<>>
    /\ Head(collPuts).issued
    /\ dbCollections' = put(dbCollections, Head(collPuts).coll)
    /\ collections' = Reflect(Head(collPuts), collections)
    /\ collPuts' = Tail(collPuts)
    /\ last' = [op |-> "collPut", ok |-> TRUE, kind |-> Head(collPuts).kind,
                 id |-> Head(collPuts).coll.id]
    /\ UNCHANGED <<variant, dbDocuments, docs, selectedColl, indexes, searchIndex, init,
                   uploads, nextDoc, nextColl, restarts>>

\* the oldest collection write rejects (StorageFault)
CollPutFault ==
    /\ collPuts # <<>>
    /\ Head(collPuts).issued
    /\ collPuts' = Tail(collPuts)
    /\ last' = [op |-> "collPut", ok |-> FALSE, kind |-> Head(collPuts).kind,
                 id |-> Head(collPuts).coll.id]
    /\ UNCHANGED <<variant, dbDocuments, dbCollections, docs, collections, selectedColl,
                   indexes, searchIndex, init, uploads, nextDoc, nextColl, restarts>>

\* a click on a collection of the sidebar
SelectCollection(i) ==
    /\ selectedColl' = <<collections[i]>>
    /\ last' = [op |-> "select"]
    /\ UNCHANGED <<variant, dbDocuments, dbCollections, docs, collections, indexes,
                   searchIndex, init, uploads, collPuts, nextDoc, nextColl, restarts>>

\* the page is reloaded: memory is lost, the tables stay
Restart ==
    /\ restarts < MaxRestarts
    /\ restarts' = restarts + 1
    /\ docs' = <<>>
    /\ collections' = <<>>
    /\ selectedColl' = <<>>
    /\ indexes' = <<<<>>>>
    /\ searchIndex' = 1
    /\ init' = FreshInit(variant)
    /\ uploads' = [u \in Slots |-> IdleUpload]
    /\ collPuts' = <<>>
    /\ last' = [op |-> "load"]
    /\ UNCHANGED <<variant, dbDocuments, dbCollections, nextDoc, nextColl>>

\* the ids of the cards that can be dragged, and of what a drag can end over:
\* nothing, or one of the cards (the only nodes registered with the DndContext)
Draggable == UNION {Range(Ids(filteredDocs(q))) : q \in Queries}
Droppable == {NoOver} \cup Draggable

Next ==
    \/ InitGetCollections
    \/ InitGetDocuments
    \/ loadSearchIndex
    \/ InitFault
    \/ \E files \in FileLists : handleUploadStart(files)
    \/ \E u \in Slots : UploadOpened(u)
    \/ \E u \in Slots : UploadPut(u)
    \/ \E u \in Slots : UploadFile(u)
    \/ \E u \in Slots : UploadFault(u)
    \/ \E u \in Slots : UploadStall(u)
    \/ \E name \in CollNames : createCollection(name)
    \/ \E active \in Draggable, over \in Droppable : handleDragEnd(active, over)
    \/ CollPutIssue
    \/ CollPutOk
    \/ CollPutFault
    \/ \E i \in DOMAIN collections : SelectCollection(i)
    \/ Restart

Spec == Init /\ [][Next]_vars

\* the collection rows as drop targets, within one page load: a drag of a card
\* ends over a collection of the state, and handleDragEnd is called with its id
AssignTargets == Range(Ids(collections))

assignDocumentToCollection(docId, collId) == handleDragEnd(docId, collId)

NextAssign ==
    \/ InitGetCollections
    \/ InitGetDocuments
    \/ loadSearchIndex
    \/ InitFault
    \/ \E files \in FileLists : handleUploadStart(files)
    \/ \E u \in Slots : UploadOpened(u)
    \/ \E u \in Slots : UploadPut(u)
    \/ \E u \in Slots : UploadFile(u)
    \/ \E u \in Slots : UploadFault(u)
    \/ \E u \in Slots : UploadStall(u)
    \/ \E name \in CollNames : createCollection(name)
    \/ CollPutIssue
    \/ CollPutOk
    \/ CollPutFault
    \/ \E i \in DOMAIN collections : SelectCollection(i)
    \/ \E docId \in Draggable, collId \in AssignTargets :
          assignDocumentToCollection(docId, collId)

SpecAssign == Init /\ [][NextAssign]_vars

\* ================================================================ claims
NoDuplicates(s) == \A i, j \in DOMAIN s : i # j => s[i] # s[j]
IsMember(colls, cid, d) == HasId(colls, cid) /\ includes(find(colls, cid).documentIds, d)
IsBlank(name) == \A i \in DOMAIN name : name[i] = " "
IdSet(s) == Range(Ids(s))

\* C1: a membership list holds each document id at most once, in the state and
\* in the collections table
MembershipOnce ==
    \A c \in Range(collections) \cup Range(dbCollections) : NoDuplicates(c.documentIds)

\* C1: a drag of a document onto a collection it is already a member of changes
\* neither the collections of the state nor the table, and issues no write
ReassignIsNoop ==
    \A docId \in Draggable, collId \in AssignTargets :
        (IsMember(collections, collId, docId) /\ assignDocumentToCollection(docId, collId))
            => UNCHANGED <<collections, dbCollections, collPuts>>

\* C1: memberships never hold an id twice, and assigning a member again is a no-op
C1_MembershipIdempotent == []MembershipOnce /\ [][ReassignIsNoop]_vars

\* C1 witness: a document was dragged onto a user collection that already had it
\* (the drag left no write in flight), and the table has it as well
C1_Witness ==
    /\ last.op = "dragEnd"
    /\ last.over # "all"
    /\ IsMember(collections, last.over, last.active)
    /\ IsMember(dbCollections, last.over, last.active)
    /\ collPuts = <<>>

\* C2: a drag onto the collection "all" changes neither the collections of the
\* state nor the table, and issues no write
C2_DropOnAllIsNoop ==
    [][\A docId \in Draggable :
          assignDocumentToCollection(docId, "all")
              => UNCHANGED <<collections, dbCollections, collPuts>>]_vars

\* C3: with "all" selected and an empty search box the documents shown are exactly
\* the documents of the state, whatever list an "all" collection object carries
C3_AllShowsEveryDocument ==
    \A c \in Range(collections) \cup Range(dbCollections) \cup Range(selectedColl) :
        c.id = "all" => filteredDocsOf(<<c>>, <<>>) = docs

\* C3 witness: "all" is selected, its object's list has fallen behind the documents
C3_Witness ==
    /\ selectedColl # <<>>
    /\ selectedColl[1].id = "all"
    /\ docs # <<>>
    /\ IdSet(docs) # Range(selectedColl[1].documentIds)
    /\ filteredDocs(<<>>) = docs

\* C4: with a user collection selected and an empty search box the documents shown
\* are exactly the documents of the state that are members of that collection now
C4_CollectionShowsItsMembers ==
    (selectedColl # <<>> /\ selectedColl[1].id # "all" /\ HasId(collections, selectedColl[1].id))
        => filteredDocs(<<>>) =
              SelectSeq(docs, LAMBDA d : IsMember(collections, selectedColl[1].id, d.id))

\* C5: a document id is a member of a user collection of the state only if the
\* collections table holds that membership
C5_PersistBeforeReflect ==
    \A c \in Range(collections) :
        c.id # "all" => \A d \in Range(c.documentIds) : IsMember(dbCollections, c.id, d)

\* C6: when the put of one file of an upload rejects, the handler goes on with the
\* files after it, and the documents it had put before are in the state
UploadFaultIsLocal ==
    \A u \in Slots :
        UploadFault(u) =>
            /\ uploads[u].files # <<>> =>
                  (uploads'[u].pc = "thumb" /\ uploads'[u].files = uploads[u].files)
            /\ \A i \in DOMAIN uploads[u].newDocs : HasId(docs', uploads[u].newDocs[i].id)

C6_FaultDoesNotAbortUpload == [][UploadFaultIsLocal]_vars

\* C7: when an upload has run to its end after the start-up load, the collections table holds "all" with
\* the ids of all documents of the state
C7_UploadPersistsAll ==
    (init.pc = "done" /\ last.op = "uploadFile" /\ last.done)
        => /\ HasId(dbCollections, "all")
           /\ Range(find(dbCollections, "all").documentIds) = IdSet(docs)

\* C8: the ids of the search index are ids of the documents table, and once the
\* start-up load is done and no upload is running the two sets are equal
C8_IndexMatchesStore ==
    /\ IdSet(indexes[searchIndex]) \subseteq IdSet(dbDocuments)
    /\ (init.pc = "done" /\ \A u \in Slots : uploads[u].pc = "idle")
          => IdSet(indexes[searchIndex]) = IdSet(dbDocuments)

\* C9: a user collection is in the state only if it is in the table
CreatedOnlyAfterWrite ==
    \A c \in Range(collections) : c.id # "all" => HasId(dbCollections, c.id)

\* C9: the write of a new collection failing leaves the collections of the state
\* as they are; succeeding, it appends that one collection, empty, and the table has it
CreateReflectsWrite ==
    (collPuts # <<>> /\ Head(collPuts).kind = "create") =>
        /\ CollPutFault => UNCHANGED <<collections, dbCollections>>
        /\ CollPutOk =>
              /\ collections' = Append(collections, Head(collPuts).coll)
              /\ Head(collPuts).coll.documentIds = <<>>
              /\ ~HasId(collections, Head(collPuts).coll.id)
              /\ HasId(dbCollections', Head(collPuts).coll.id)
              /\ find(dbCollections', Head(collPuts).coll.id) = Head(collPuts).coll

C9_CreateWriteThenReflect == []CreatedOnlyAfterWrite /\ [][CreateReflectsWrite]_vars

\* C9 witness: the write of a new collection has just failed and the state shows
\* no collection but "all"
C9_Witness ==
    /\ last.op = "collPut"
    /\ ~last.ok
    /\ last.kind = "create"
    /\ collections # <<>>
    /\ \A c \in Range(collections) : c.id = "all"
    /\ dbCollections = <<>>

\* C10: createCollection with an empty or blank name changes neither the
\* collections of the state nor the table, and issues no write
C10_BlankNameIsNoop ==
    [][\A name \in CollNames :
          (IsBlank(name) /\ createCollection(name))
              => UNCHANGED <<collections, dbCollections, collPuts>>]_vars

\* C10 witness: createCollection has just returned at its name test
C10_Witness ==
    /\ last.op = "createCollection"
    /\ ~last.issued
    /\ collections # <<>>

\* C11: every id in a membership list of the state is the id of a document of the
\* state and of the documents table, and every id in a membership list of the
\* collections table is the id of a document of the documents table
C11_NoDanglingMember ==
    /\ \A c \in Range(collections) : \A d \in Range(c.documentIds) :
          d \in IdSet(docs) /\ d \in IdSet(dbDocuments)
    /\ \A c \in Range(dbCollections) : \A d \in Range(c.documentIds) :
          d \in IdSet(dbDocuments)

\* C12: for a non-empty query every entry of the result is a document of the
\* state, and the result is the hits of the index, in their order, without the
\* hits whose id is no document of the state
Resolvable(hit) == HasId(docs, hit.id)
C12_SearchResolvesInSnapshot ==
    \A q \in Queries \ {<<>>} :
        LET hits == search(indexes[searchIndex], q)
            res == filteredDocs(q)
        IN  /\ \A i \in DOMAIN res : res[i] \in Range(docs)
            /\ Ids(res) = Ids(SelectSeq(hits, Resolvable))

\* a query with a hit that is kept and a hit that is dropped
C12_Witness ==
    \E q \in Queries \ {<<>>} :
        /\ filteredDocs(q) # <<>>
        /\ \E hit \in Range(search(indexes[searchIndex], q)) : ~Resolvable(hit)

\* C13: for a non-empty query the result is the same sequence whatever collection
\* is active (none, any collection of the state, the selected object), and it
\* holds every hit that is a document of the state, member of the active
\* collection or not
Selections == {<<>>, selectedColl} \cup {<<c>> : c \in Range(collections)}
C13_SearchIgnoresSelection ==
    \A q \in Queries \ {<<>>} :
        /\ \A s1, s2 \in Selections : filteredDocsOf(s1, q) = filteredDocsOf(s2, q)
        /\ \A hit \in Range(search(indexes[searchIndex], q)) :
              HasId(docs, hit.id) => hit.id \in IdSet(filteredDocs(q))

\* a user collection is active and a search returns a document that is not in it
C13_Witness ==
    /\ selectedColl # <<>>
    /\ selectedColl[1].id # "all"
    /\ \E q \in Queries \ {<<>>} : \E d \in Range(filteredDocs(q)) :
          ~includes(selectedColl[1].documentIds, d.id)

\* C14: a drag that ends over nothing, over something that is no collection of the
\* state, or over the dragged item itself changes neither the documents, the
\* collections, the index nor a table, and issues no write
InertDrop(active, over) == over = NoOver \/ active = over \/ ~HasId(collections, over)
C14_InertDragIsNoop ==
    [][\A active \in Draggable, over \in Droppable :
          (InertDrop(active, over) /\ handleDragEnd(active, over))
              => UNCHANGED <<docs, collections, indexes, searchIndex, dbDocuments,
                             dbCollections, collPuts>>]_vars

\* C14 witness: a document has just been dropped on the card of another document,
\* with a collection on screen it could have gone to
C14_Witness ==
    /\ last.op = "dragEnd"
    /\ last.over \in IdSet(docs) \ {last.active}
    /\ \E c \in Range(collections) : ~includes(c.documentIds, last.active)

\* C15: every turn of an upload makes a document under an id that no document of
\* the table, the state or the index has, and puts it into the table; when the
\* handler has updated the state for it (A: in the same turn, B: after its last
\* file) every document the upload made is in the table, the state and the index
\* that searches read
UploadAddsItsFiles(u) ==
    LET up == uploads[u]
        put1 == {d \in Range(dbDocuments') : ~HasId(dbDocuments, d.id)}
        made == IF variant = "A" THEN put1 ELSE Range(up.newDocs) \cup put1
    IN  /\ Cardinality(put1) = 1
        /\ \A d \in put1 : d.id \notin IdSet(docs) \cup IdSet(indexes[searchIndex])
        /\ (variant = "A" \/ up.files = <<>>) =>
              \A d \in made :
                  /\ HasId(dbDocuments', d.id)
                  /\ HasId(docs', d.id)
                  /\ HasId(indexes'[searchIndex'], d.id)
C15_UploadAddsEveryFile ==
    [][\A u \in Slots : UploadFile(u) => UploadAddsItsFiles(u)]_vars

\* C16: the thumbnail of the file an upload is at is always made, whatever the
\* kind of the file, so no upload ever waits at a thumbnail that is never
\* settled (a handler that does has no further step: its upload never completes
\* and the files after that one are never looked at)
C16_ThumbnailAlwaysResolves ==
    \A u \in Slots :
        /\ uploads[u].pc # "stalled"
        /\ uploads[u].pc = "thumb" =>
              createThumbnail(variant, Head(uploads[u].files)) # <<Never>>

\* C17: when the write of one assignment to a user collection has just succeeded and
\* the write of a second assignment to the same collection, of another
\* document, was already waiting behind it, then once the second write has
\* succeeded as well the collection has both documents, in the state and in
\* the table
IsAssignment(kind) == kind \in {"assign", "detached"}
SecondOfTwoAssignments ==
    /\ collPuts # <<>>
    /\ IsAssignment(Head(collPuts).kind)
    /\ last.op = "collPut" /\ last.ok /\ IsAssignment(last.kind)
    /\ last.id = Head(collPuts).coll.id /\ last.id # "all"
    /\ HasId(dbCollections, last.id)
    /\ find(dbCollections, last.id).documentIds # <<>>
BothAssigned ==
    LET c == Head(collPuts).coll.id
        first == find(dbCollections, c).documentIds
        second == Head(collPuts).coll.documentIds
        d1 == first[Len(first)]
        d2 == second[Len(second)]
    IN  d1 # d2 =>
            /\ IsMember(collections', c, d1) /\ IsMember(collections', c, d2)
            /\ IsMember(dbCollections', c, d1) /\ IsMember(dbCollections', c, d2)
C17_NoLostAssignment ==
    [][(SecondOfTwoAssignments /\ CollPutOk) => BothAssigned]_vars

\* C18: when an upload finishes right after another one has finished while it was
\* running, and no upload is left running, the state has the documents it had
\* (those of the other upload among them) and the documents of this upload,
\* and the membership of "all" in the state is the ids of the documents of
\* the state
SecondOfTwoUploads(u) ==
    /\ last.op = "uploadFile" /\ last.done
    /\ UploadFile(u)
    /\ \A w \in Slots : uploads'[w].pc = "idle"
C18_OverlappingUploadsKeepAll ==
    [][\A u \in Slots : SecondOfTwoUploads(u) =>
          /\ IdSet(docs) \subseteq IdSet(docs')
          /\ IdSet(dbDocuments') \ IdSet(dbDocuments) \subseteq IdSet(docs')
          /\ \A c \in Range(collections') :
                c.id = "all" => Range(c.documentIds) = IdSet(docs')]_vars

\* C19: no step of a process takes a document out of the documents of the state
\* (a restart starts a new process with an empty state)
C19_DocumentsNeverLeaveState ==
    [][restarts' = restarts => IdSet(docs) \subseteq IdSet(docs')]_vars

\* C20: when the start-up load is done, no upload is running, no collection write
\* is waiting and every document id handed out has been put (so no document
\* put has been rejected), the documents table and the state have the same
\* documents, and a user collection that is in both has no member in the
\* table that it lacks in the state (a rejected collection write can leave
\* the table short of the state, never the state short of the table)
Quiescent ==
    /\ init.pc = "done"
    /\ \A u \in Slots : uploads[u].pc = "idle"
    /\ collPuts = <<>>
NoDocumentFault == Len(dbDocuments) = nextDoc - 1
C20_StateAndStoreConverge ==
    (Quiescent /\ NoDocumentFault) =>
        /\ IdSet(dbDocuments) = IdSet(docs)
        /\ \A c \in Range(collections), p \in Range(dbCollections) :
              (c.id = p.id /\ c.id # "all") =>
                  Range(p.documentIds) \subseteq Range(c.documentIds)

\* C21: when the start-up effect has just set the state it loaded (A: with the
\* documents read, B: with the collections read), the collections of the state
\* have a collection with the id "all"
JustLoaded ==
    \/ variant = "A" /\ last.op = "initGetDocuments"
    \/ variant = "B" /\ last.op = "initGetCollections"
C21_AllPresentAfterLoad == JustLoaded => HasId(collections, "all")

\* C22: within a process, a user collection that stays in the state keeps every
\* member it has, and its membership changes only by a drag onto it, which
\* appends the dragged id (A: when the write of that drag has succeeded,
\* B: in the drag itself)
IsDragOnto(c, d) ==
    \/ /\ variant = "A"
       /\ collPuts # <<>> /\ CollPutOk
       /\ Head(collPuts).kind = "assign" /\ Head(collPuts).coll.id = c
       /\ Head(collPuts).coll.documentIds # <<>>
       /\ Head(collPuts).coll.documentIds[Len(Head(collPuts).coll.documentIds)] = d
    \/ /\ variant = "B"
       /\ last'.op = "dragEnd" /\ last'.over = c /\ last'.active = d
MembershipFrame(c) ==
    LET old == find(collections, c).documentIds
        new == find(collections', c).documentIds
    IN  /\ Range(old) \subseteq Range(new)
        /\ old # new => \E d \in Range(new) : new = Append(old, d) /\ IsDragOnto(c, d)
C22_MembershipChangedOnlyByDrag ==
    [][restarts' = restarts =>
          \A c \in (IdSet(collections) \cap IdSet(collections')) \ {"all"} :
              MembershipFrame(c)]_vars

\* C23: when a read of the start-up effect has failed the state is not partly
\* loaded: it holds no document that the index searches read does not hold
C23_NoPartialLoad ==
    init.pc = "failed" => IdSet(docs) \subseteq IdSet(indexes[searchIndex])

====
